---- MODULE Spec2Model ----
(***************************************************************************)
(* The two HyperLogLog sketches of src/task3/dsa5.cpp: class HLL (one int  *)
(* per register) and class HLL_Improved (one std::bitset<5> per register). *)
(*                                                                         *)
(* Representation choices:                                                 *)
(*  - a uint32_t is a pair <<hi, lo>> of 16-bit halves, so that every     *)
(*    intermediate value stays below 2^31; shifts are computed on the pair *)
(*    and drop the bits that leave the 32-bit word, as the C++ shifts do;  *)
(*  - the double `sum` of estimate() is a fixed-point number               *)
(*    <<I, F1, F0>> = I + F1/2^16 + F0/2^32.  Every term 1.0/(1ULL << r)   *)
(*    with r <= 32 is a multiple of 2^-32 and the sum of at most 2^16 of   *)
(*    them is below 2^17, so the double additions are exact and the fixed  *)
(*    point value is the value the double holds;                           *)
(*  - estimate() returns a record naming the branch taken and the operands *)
(*    of the returned expression (m * log(m / zero_regs), or               *)
(*    0.7213 * m * m / sum).  The test E <= 2.5 * m is decided exactly as  *)
(*    7213 * m <= floor(25000 * sum): for every m = 2^B, B in 1..16, the   *)
(*    double 0.7213 and the decimal 0.7213 put the threshold between the   *)
(*    same two multiples of 2^-32, at a distance far above the rounding    *)
(*    error of the division, so the double comparison has this outcome.    *)
(*  - log and ilog are history variables: the calls made so far on the     *)
(*    HLL object and on the HLL_Improved object.                           *)
(***************************************************************************)
EXTENDS Integers, Sequences, FiniteSets, TLC

VARIABLES B, m, regs, iregs, log, ilog

vars == <<B, m, regs, iregs, log, ilog>>

\* Bounds of the exploration.
MaxB == 4
MaxOps == 3

\* Program constants.
WordBits == 32
TopBitHalf == 32768
FieldBits == 5
ClampMax == 31
ByteBits == 8
AlphaE4 == 7213
ThresholdE4 == 25000

Half == 2 ^ 16

\* 1 << k
Pow2(k) == 2 ^ k

Max(a, b) == IF a >= b THEN a ELSE b
Min(a, b) == IF a <= b THEN a ELSE b

RECURSIVE SetMax(_)
SetMax(S) ==
    IF S = {} THEN 0
    ELSE LET x == CHOOSE y \in S : TRUE IN Max(x, SetMax(S \ {x}))

(***************************************************************************)
(* uint32_t arithmetic on <<hi, lo>>.                                      *)
(***************************************************************************)
Shl1(x) == <<((2 * x[1]) % Half) + (x[2] \div TopBitHalf), (2 * x[2]) % Half>>

RECURSIVE Shl(_, _)
Shl(x, k) == IF k = 0 THEN x ELSE Shl(Shl1(x), k - 1)

Shr1(x) == <<x[1] \div 2, ((x[1] % 2) * TopBitHalf) + (x[2] \div 2)>>

RECURSIVE Shr(_, _)
Shr(x, k) == IF k = 0 THEN x ELSE Shr(Shr1(x), k - 1)

\* (x & 0x80000000) == 0
TopBitClear(x) == x[1] < TopBitHalf

\* conversion of a uint32_t below 2^31 to int
ToInt(x) == x[1] * Half + x[2]

\* Hash outputs fed to add(): the injected hash_func may return any uint32_t.
Hashes ==
    { <<0, 0>>,          \* 0x00000000
      <<12416, 0>>,      \* 0x30800000
      <<12288, 1>>,      \* 0x30000001
      <<16384, 0>>,      \* 0x40000000
      <<49152, 0>>,      \* 0xC0000000
      <<32768, 0>>,      \* 0x80000000
      <<65535, 65535>> } \* 0xFFFFFFFF

(***************************************************************************)
(* The double accumulator of estimate(), as <<I, F1, F0>>.                 *)
(***************************************************************************)
FxZero == <<0, 0, 0>>

FxNorm(i, f1, f0) ==
    LET g1 == f1 + (f0 \div Half)
    IN  <<i + (g1 \div Half), g1 % Half, f0 % Half>>

FxAdd(a, b) == FxNorm(a[1] + b[1], a[2] + b[2], a[3] + b[3])

\* floor(k * a), for 0 <= k <= 32767
FxMulFloor(a, k) == (k * a[1]) + (((k * a[2]) + ((k * a[3]) \div Half)) \div Half)

\* variant: 1 / (1ULL << r) in integer arithmetic, 1 for r = 0 and 0 otherwise
Recip_IntDiv(r) == IF r = 0 THEN <<1, 0, 0>> ELSE FxZero

\* 1.0 / (1ULL << r), for 0 <= r <= 32 (no register exceeds 32, see C6)
Recip(r) ==
    IF r = 0 THEN <<1, 0, 0>>
    ELSE IF r <= 16 THEN <<0, Pow2(16 - r), 0>>
    ELSE <<0, 0, Pow2(WordBits - r)>>

\* E <= 2.5 * m  with  E = 0.7213 * m * m / sum:  as sum >= 0 and m > 0 this is
\* 0.7213 * m <= 2.5 * sum, that is 7213 * m <= floor(25000 * sum).
SmallRange(sum, mm) == AlphaE4 * mm <= FxMulFloor(sum, ThresholdE4)

(***************************************************************************)
(* class HLL                                                               *)
(***************************************************************************)
RECURSIVE HLL_count_loop(_, _)
HLL_count_loop(x, zeros) ==
    IF TopBitClear(x) THEN HLL_count_loop(Shl1(x), zeros + 1) ELSE zeros

\* variant: the zero word counted as 32 bits, not 32 - B
HLL_count_zeros_NoB(x, b) ==
    IF x = <<0, 0>> THEN WordBits ELSE HLL_count_loop(x, 0)

HLL_count_zeros(x, b) ==
    IF x = <<0, 0>> THEN WordBits - b ELSE HLL_count_loop(x, 0)

HLL_new(b) == [i \in 0 .. (Pow2(b) - 1) |-> 0]

\* variant: the register written without the comparison
HLL_add_Overwrite(rs, b, h) ==
    LET idx == ToInt(Shr(h, WordBits - b))
        w == Shl(h, b)
        zeros == HLL_count_zeros(w, b) + 1
    IN  [rs EXCEPT ![idx] = zeros]

HLL_add(rs, b, h) ==
    LET idx == ToInt(Shr(h, WordBits - b))
        w == Shl(h, b)
        zeros == HLL_count_zeros(w, b) + 1
    IN  IF zeros > rs[idx] THEN [rs EXCEPT ![idx] = zeros] ELSE rs

\* the loop of estimate(): sum and zero_regs over the registers, in order
RECURSIVE HLL_estimate_loop(_, _, _, _)
HLL_estimate_loop(rs, i, sum, zero_regs) ==
    IF i \notin DOMAIN rs THEN [sum |-> sum, zero_regs |-> zero_regs]
    ELSE HLL_estimate_loop(rs, i + 1, FxAdd(sum, Recip(rs[i])),
                           zero_regs + (IF rs[i] = 0 THEN 1 ELSE 0))

HLL_estimate_scan(rs) == HLL_estimate_loop(rs, 0, FxZero, 0)

\* variant: HLL_estimate without the zero_regs > 0 guard
HLL_estimate_NoGuard(rs, mm) ==
    LET acc == HLL_estimate_scan(rs)
    IN  IF SmallRange(acc.sum, mm)
        THEN [path |-> "linear", m |-> mm, zero_regs |-> acc.zero_regs, sum |-> FxZero]
        ELSE [path |-> "raw", m |-> mm, zero_regs |-> 0, sum |-> acc.sum]

\* The value returned: on path "linear" it is m * log(m / zero_regs), on path
\* "raw" it is 0.7213 * m * m / sum; the operand the path does not read is 0.
HLL_estimate(rs, mm) ==
    LET acc == HLL_estimate_scan(rs)
    IN  IF SmallRange(acc.sum, mm) /\ acc.zero_regs > 0
        THEN [path |-> "linear", m |-> mm, zero_regs |-> acc.zero_regs, sum |-> FxZero]
        ELSE [path |-> "raw", m |-> mm, zero_regs |-> 0, sum |-> acc.sum]

\* variant: fill from begin() + 1
HLL_clear_SkipFirst(rs) == [i \in DOMAIN rs |-> IF i = 0 THEN rs[i] ELSE 0]

HLL_clear(rs) == [i \in DOMAIN rs |-> 0]

(***************************************************************************)
(* class HLL_Improved                                                      *)
(***************************************************************************)
\* std::bitset<5>(unsigned long long): the low 5 bits of the value
Bitset5(v) == v % Pow2(FieldBits)

\* std::bitset<5>::to_ulong
ToUlong(bs) == bs

RECURSIVE HLLI_count_loop(_, _)
HLLI_count_loop(x, zeros) ==
    IF TopBitClear(x) THEN HLLI_count_loop(Shl1(x), zeros + 1) ELSE zeros

HLLI_count_zeros(x, b) ==
    IF x = <<0, 0>> THEN WordBits - b ELSE HLLI_count_loop(x, 0)

HLLI_new(b) == [i \in 0 .. (Pow2(b) - 1) |-> Bitset5(0)]

\* variant: the register written without the comparison
HLLI_add_Overwrite(rs, b, h) ==
    LET idx == ToInt(Shr(h, WordBits - b))
        w == Shl(h, b)
        zeros0 == HLLI_count_zeros(w, b) + 1
        zeros == IF zeros0 > ClampMax THEN ClampMax ELSE zeros0
    IN  [rs EXCEPT ![idx] = Bitset5(zeros)]

\* variant: no clamp to 31 before the 5-bit store
HLLI_add_NoClamp(rs, b, h) ==
    LET idx == ToInt(Shr(h, WordBits - b))
        w == Shl(h, b)
        zeros == HLLI_count_zeros(w, b) + 1
    IN  IF zeros > ToUlong(rs[idx]) THEN [rs EXCEPT ![idx] = Bitset5(zeros)] ELSE rs

HLLI_add(rs, b, h) ==
    LET idx == ToInt(Shr(h, WordBits - b))
        w == Shl(h, b)
        zeros0 == HLLI_count_zeros(w, b) + 1
        zeros == IF zeros0 > ClampMax THEN ClampMax ELSE zeros0
    IN  IF zeros > ToUlong(rs[idx]) THEN [rs EXCEPT ![idx] = Bitset5(zeros)] ELSE rs

RECURSIVE HLLI_estimate_loop(_, _, _, _)
HLLI_estimate_loop(rs, i, sum, zero_regs) ==
    IF i \notin DOMAIN rs THEN [sum |-> sum, zero_regs |-> zero_regs]
    ELSE HLLI_estimate_loop(rs, i + 1, FxAdd(sum, Recip(ToUlong(rs[i]))),
                            zero_regs + (IF ToUlong(rs[i]) = 0 THEN 1 ELSE 0))

HLLI_estimate_scan(rs) == HLLI_estimate_loop(rs, 0, FxZero, 0)

HLLI_estimate(rs, mm) ==
    LET acc == HLLI_estimate_scan(rs)
    IN  IF SmallRange(acc.sum, mm) /\ acc.zero_regs > 0
        THEN [path |-> "linear", m |-> mm, zero_regs |-> acc.zero_regs, sum |-> FxZero]
        ELSE [path |-> "raw", m |-> mm, zero_regs |-> 0, sum |-> acc.sum]

HLLI_memory_usage(mm) == (mm * FieldBits) \div ByteBits

(***************************************************************************)
(* The state machine: one HLL and one HLL_Improved object constructed with *)
(* the same precision B, and the calls a caller can make on each.          *)
(***************************************************************************)
Init ==
    /\ B \in 1 .. MaxB
    /\ m = Pow2(B)
    /\ regs = HLL_new(B)
    /\ iregs = HLLI_new(B)
    /\ log = <<>>
    /\ ilog = <<>>

Ops == Len(log) + Len(ilog)

AddEntry(h) == <<"add", h>>
ClearEntry == <<"clear", <<0, 0>>>>

\* HLL::add with hash_func(s) = h
Add(h) ==
    /\ Ops < MaxOps
    /\ regs' = HLL_add(regs, B, h)
    /\ log' = Append(log, AddEntry(h))
    /\ UNCHANGED <<B, m, iregs, ilog>>

\* HLL::clear
Clear ==
    /\ Ops < MaxOps
    /\ regs' = HLL_clear(regs)
    /\ log' = Append(log, ClearEntry)
    /\ UNCHANGED <<B, m, iregs, ilog>>

\* HLL_Improved::add with hash_func(s) = h
IAdd(h) ==
    /\ Ops < MaxOps
    /\ iregs' = HLLI_add(iregs, B, h)
    /\ ilog' = Append(ilog, AddEntry(h))
    /\ UNCHANGED <<B, m, regs, log>>

Next ==
    \/ \E h \in Hashes : Add(h)
    \/ Clear
    \/ \E h \in Hashes : IAdd(h)

Spec == Init /\ [][Next]_vars

TypeOK ==
    /\ B \in 1 .. MaxB
    /\ m = Pow2(B)
    /\ DOMAIN regs = 0 .. (m - 1)
    /\ DOMAIN iregs = 0 .. (m - 1)
    /\ Ops <= MaxOps

(***************************************************************************)
(* Vocabulary of the properties, stated on the hash value itself.          *)
(***************************************************************************)
\* the top b bits of h
Index(h, b) == h[1] \div Pow2(16 - b)

\* the low (32 - b) bits of h, as a number
Remainder(h, b) == ((h[1] % Pow2(16 - b)) * Half) + h[2]

\* the number of binary digits of r > 0
BitLen(r) == CHOOSE k \in 1 .. 31 : r \div (2 ^ (k - 1)) = 1

\* leading zero bits of the remainder within its (32 - b)-bit window, plus 1;
\* (32 - b) + 1 when the remainder is 0
Rank(h, b) ==
    IF Remainder(h, b) = 0 THEN (32 - b) + 1
    ELSE ((32 - b) - BitLen(Remainder(h, b))) + 1

RankClamped(h, b) == Min(Rank(h, b), 31)

IsAdd(e) == e[1] = "add"

LastClear(l) == SetMax({i \in 1 .. Len(l) : l[i] = ClearEntry})

\* the hash outputs added since the last clear()
Added(l) == {l[i][2] : i \in (LastClear(l) + 1) .. Len(l)}

ZeroCount(rs) == Cardinality({i \in DOMAIN rs : rs[i] = 0})

\* Z = sum over the registers of 2^(-value), from the histogram of the values
\* c * 2^(-v), for 0 <= v <= 32
Scaled(c, v) ==
    IF v = 0 THEN <<c, 0, 0>>
    ELSE IF v <= 16 THEN FxNorm(0, c * (2 ^ (16 - v)), 0)
    ELSE FxNorm(0, 0, c * (2 ^ (32 - v)))

RECURSIVE HistSum(_, _)
HistSum(rs, vals) ==
    IF vals = {} THEN FxZero
    ELSE LET v == CHOOSE x \in vals : TRUE
         IN  FxAdd(Scaled(Cardinality({i \in DOMAIN rs : rs[i] = v}), v),
                   HistSum(rs, vals \ {v}))

ZOf(rs) == HistSum(rs, {rs[i] : i \in DOMAIN rs})

FxLess(a, b) ==
    \/ a[1] < b[1]
    \/ a[1] = b[1] /\ a[2] < b[2]
    \/ a[1] = b[1] /\ a[2] = b[2] /\ a[3] < b[3]

\* the value m * log(m / zero_regs) is 0 exactly when m / zero_regs is 1
ReturnsZero(e) == e.path = "linear" /\ e.zero_regs = e.m

(***************************************************************************)
(* C1. Storage equivalence: whenever the HLL and the HLL_Improved object   *)
(* have been fed the same sequence of add operations, every register holds *)
(* the same value in both and estimate() returns the same value for both.  *)
(***************************************************************************)
C1_StorageEquivalence ==
    (log = ilog) =>
        /\ \A i \in 0 .. (m - 1) : regs[i] = ToUlong(iregs[i])
        /\ HLL_estimate(regs, m) = HLLI_estimate(iregs, m)

(***************************************************************************)
(* C2. Monotonicity: no add step lowers a register of either sketch; a     *)
(* register value decreases only in a clear() step.                        *)
(***************************************************************************)
C2_Monotonic ==
    [][ /\ (\E i \in DOMAIN regs : regs'[i] < regs[i]) => log' = Append(log, ClearEntry)
        /\ \A i \in DOMAIN iregs : ToUlong(iregs'[i]) >= ToUlong(iregs[i]) ]_vars

\* an add of a lower rank has followed an add of a higher rank to the same
\* register
C2_Witness ==
    /\ Len(log) >= 2
    /\ LET a == log[Len(log) - 1]
           c == log[Len(log)]
       IN  /\ IsAdd(a) /\ IsAdd(c)
           /\ Index(a[2], B) = Index(c[2], B)
           /\ Rank(c[2], B) < Rank(a[2], B)
           /\ regs[Index(a[2], B)] = Rank(a[2], B)

(***************************************************************************)
(* C3. Idempotence under duplicates: adding again a hash output already    *)
(* added since the last clear() leaves every register unchanged, and       *)
(* estimate() returns what it returned before the re-add.                  *)
(***************************************************************************)
C3_Idempotent ==
    [][ \A h \in Hashes :
          /\ (log' = Append(log, AddEntry(h)) /\ h \in Added(log)) =>
                /\ regs' = regs
                /\ HLL_estimate(regs', m') = HLL_estimate(regs, m)
          /\ (ilog' = Append(ilog, AddEntry(h)) /\ h \in Added(ilog)) =>
                /\ iregs' = iregs
                /\ HLLI_estimate(iregs', m') = HLLI_estimate(iregs, m) ]_vars

\* a hash output was added, then one of another rank for the same register,
\* then the first one again
C3_Witness ==
    \E l \in {log, ilog} :
        /\ Len(l) >= 3
        /\ LET a == l[Len(l) - 2]
               c == l[Len(l) - 1]
               d == l[Len(l)]
           IN  /\ IsAdd(a) /\ IsAdd(c) /\ d = a
               /\ Index(a[2], B) = Index(c[2], B)
               /\ Rank(c[2], B) < Rank(a[2], B)

(***************************************************************************)
(* C4. Zero-distinct case: a freshly constructed sketch, and an HLL just   *)
(* after clear(), has every register 0, so zero_regs = m, and estimate()   *)
(* takes the linear-counting path and returns m * log(m / m) = 0.          *)
(***************************************************************************)
C4_ZeroDistinct ==
    /\ (log = <<>> \/ log[Len(log)] = ClearEntry) =>
          /\ \A i \in DOMAIN regs : regs[i] = 0
          /\ HLL_estimate_scan(regs).zero_regs = m
          /\ ReturnsZero(HLL_estimate(regs, m))
    /\ (ilog = <<>>) =>
          /\ \A i \in DOMAIN iregs : ToUlong(iregs[i]) = 0
          /\ HLLI_estimate_scan(iregs).zero_regs = m
          /\ ReturnsZero(HLLI_estimate(iregs, m))

\* clear() has just run on a sketch that held two non-zero registers
C4_Witness ==
    /\ Len(log) >= 3
    /\ log[Len(log)] = ClearEntry
    /\ IsAdd(log[Len(log) - 1]) /\ IsAdd(log[Len(log) - 2])
    /\ Index(log[Len(log) - 1][2], B) # Index(log[Len(log) - 2][2], B)

(***************************************************************************)
(* C5. Memory formula: memory_usage() of the compact sketch equals         *)
(* ceil(m * 5 / 8) with m = 2^B; for B = 8 it is 160.                      *)
(***************************************************************************)
C5_MemoryFormula ==
    /\ HLLI_memory_usage(m) = ((m * 5) + 7) \div 8
    /\ (B = 8) => HLLI_memory_usage(m) = 160

(***************************************************************************)
(* C6. Register range, as claimed: every register value of either sketch   *)
(* lies in [0, 32 - B].                                                    *)
(***************************************************************************)
C6_RangeAsClaimed ==
    /\ \A i \in DOMAIN regs : regs[i] \in 0 .. (32 - B)
    /\ \A i \in DOMAIN iregs : ToUlong(iregs[i]) \in 0 .. (32 - B)

(***************************************************************************)
(* C6, amended. Every register value of HLL lies in [0, 33 - B] (the rank  *)
(* 33 - B is stored when the remainder is 0), and every register value of  *)
(* HLL_Improved lies in [0, min(31, 33 - B)].                              *)
(***************************************************************************)
C6_RegisterRange ==
    /\ \A i \in DOMAIN regs : regs[i] \in 0 .. (33 - B)
    /\ \A i \in DOMAIN iregs : ToUlong(iregs[i]) \in 0 .. Min(31, 33 - B)

\* both upper ends are attained
C6_Witness ==
    /\ \E i \in DOMAIN regs : regs[i] = 33 - B
    /\ \E i \in DOMAIN iregs : ToUlong(iregs[i]) = Min(31, 33 - B)

(***************************************************************************)
(* C7. Effect of add: an add of hash output h sets register Index(h) to    *)
(* the maximum of its old value and Rank(h) (clamped to 31 in the compact  *)
(* sketch) and leaves every other register, B and m unchanged.             *)
(***************************************************************************)
C7_AddEffect ==
    [][ \A h \in Hashes :
          /\ (log' = Append(log, AddEntry(h))) =>
                /\ regs' = [regs EXCEPT ![Index(h, B)] = Max(regs[Index(h, B)], Rank(h, B))]
                /\ B' = B /\ m' = m /\ iregs' = iregs
          /\ (ilog' = Append(ilog, AddEntry(h))) =>
                /\ iregs' = [iregs EXCEPT ![Index(h, B)] =
                                Max(ToUlong(iregs[Index(h, B)]), RankClamped(h, B))]
                /\ B' = B /\ m' = m /\ regs' = regs ]_vars

\* B = 4, all registers 0, one add routed to index 3 with rank 5
C7_Witness ==
    /\ B = 4
    /\ log = <<AddEntry(<<12416, 0>>)>>
    /\ ilog = <<AddEntry(<<12416, 0>>)>>
    /\ Index(<<12416, 0>>, B) = 3 /\ Rank(<<12416, 0>>, B) = 5
    /\ \A i \in DOMAIN regs : regs[i] = (IF i = 3 THEN 5 ELSE 0)
    /\ \A i \in DOMAIN iregs : ToUlong(iregs[i]) = (IF i = 3 THEN 5 ELSE 0)

(***************************************************************************)
(* C8. Small-range branch: estimate() returns m * log(m / zeroCount)       *)
(* exactly when E_raw <= 2.5 * m and zeroCount > 0, and E_raw =            *)
(* 0.7213 * m^2 / Z otherwise; zeroCount = 0 keeps the raw estimate, and   *)
(* the linear path never divides by a zeroCount of 0.                      *)
(***************************************************************************)
C8_BranchOf(e, rs) ==
    /\ e.m = m
    /\ (e.path = "linear") <=> (SmallRange(ZOf(rs), m) /\ ZeroCount(rs) > 0)
    /\ (e.path = "linear") => (e.zero_regs = ZeroCount(rs) /\ e.zero_regs > 0)
    /\ (e.path # "linear") => (e.path = "raw" /\ e.sum = ZOf(rs))

C8_SmallRangeBranch ==
    /\ C8_BranchOf(HLL_estimate(regs, m), regs)
    /\ C8_BranchOf(HLLI_estimate(iregs, m), iregs)

\* no register is 0 and E_raw <= 2.5 * m: the raw estimate is kept
C8_Witness ==
    /\ ZeroCount(regs) = 0
    /\ SmallRange(ZOf(regs), m)
    /\ HLL_estimate(regs, m).path = "raw"

(***************************************************************************)
(* C9. Positivity of Z, as claimed: every register contributes at least 1  *)
(* to Z, so Z >= m.                                                        *)
(***************************************************************************)
C9_ZAtLeastM ==
    /\ ~ FxLess(HLL_estimate_scan(regs).sum, <<m, 0, 0>>)
    /\ ~ FxLess(HLLI_estimate_scan(iregs).sum, <<m, 0, 0>>)

(***************************************************************************)
(* C9, amended. Every register contributes more than 0 and at most 1 to    *)
(* Z, so 0 < Z <= m and the division by Z is never a division by zero.     *)
(***************************************************************************)
C9_ZPositive ==
    LET Z == HLL_estimate_scan(regs).sum
        IZ == HLLI_estimate_scan(iregs).sum
    IN  /\ \A i \in DOMAIN regs :
              FxLess(FxZero, Recip(regs[i])) /\ ~ FxLess(<<1, 0, 0>>, Recip(regs[i]))
        /\ FxLess(FxZero, Z) /\ ~ FxLess(<<m, 0, 0>>, Z)
        /\ \A i \in DOMAIN iregs :
              FxLess(FxZero, Recip(ToUlong(iregs[i])))
              /\ ~ FxLess(<<1, 0, 0>>, Recip(ToUlong(iregs[i])))
        /\ FxLess(FxZero, IZ) /\ ~ FxLess(<<m, 0, 0>>, IZ)

\* no register of the HLL is 0: every contribution is below 1, and Z < m
C9_Witness ==
    /\ ZeroCount(regs) = 0
    /\ FxLess(HLL_estimate_scan(regs).sum, <<m, 0, 0>>)

(***************************************************************************)
(* C10. Order independence: the registers depend only on the set of hash   *)
(* outputs added since the last clear(): register i holds the largest rank *)
(* among the added outputs routed to i (0 when there is none), whatever    *)
(* the order of the adds.                                                  *)
(***************************************************************************)
C10_OrderIndependent ==
    LET A == Added(log)
        IA == Added(ilog)
    IN  /\ DOMAIN regs = 0 .. (m - 1)
        /\ \A h \in A : regs[Index(h, B)] >= Rank(h, B)
        /\ \A i \in DOMAIN regs :
              \/ regs[i] = 0 /\ \A h \in A : Index(h, B) # i
              \/ \E h \in A : Index(h, B) = i /\ Rank(h, B) = regs[i]
        /\ DOMAIN iregs = 0 .. (m - 1)
        /\ \A h \in IA : ToUlong(iregs[Index(h, B)]) >= RankClamped(h, B)
        /\ \A i \in DOMAIN iregs :
              \/ ToUlong(iregs[i]) = 0 /\ \A h \in IA : Index(h, B) # i
              \/ \E h \in IA : Index(h, B) = i /\ RankClamped(h, B) = ToUlong(iregs[i])

\* the compact sketch was fed three outputs routed to one register, the
\* largest rank in the middle
C10_Witness ==
    /\ Len(ilog) = 3
    /\ Index(ilog[1][2], B) = Index(ilog[2][2], B)
    /\ Index(ilog[3][2], B) = Index(ilog[2][2], B)
    /\ RankClamped(ilog[1][2], B) < RankClamped(ilog[2][2], B)
    /\ RankClamped(ilog[3][2], B) < RankClamped(ilog[2][2], B)
    /\ RankClamped(ilog[1][2], B) # RankClamped(ilog[3][2], B)
    /\ ToUlong(iregs[Index(ilog[2][2], B)]) = RankClamped(ilog[2][2], B)
====
